---- MODULE Spec2Model ----
(***************************************************************************)
(* Model of lib/mqtt_sender.py: class MQTTSender.                          *)
(*                                                                         *)
(* One caller thread constructs the sender (connect, test_connection, set  *)
(* topics) and then issues publish calls.  The broker / transport is the   *)
(* environment: it makes the connection live or drops it at any moment, it *)
(* lets a transport publish succeed or raise, and it fires the on_publish  *)
(* callback for messages it has accepted, in any order.                    *)
(***************************************************************************)
EXTENDS Integers, Sequences, FiniteSets, TLC

\* ---------------------------------------------------------------- bounds
MaxTimeout == 3
MaxTopics == 2
MaxPublishes == 1

\* ------------------------------------------------------- input universes
TopicNames == {"a", "b"}
Payloads == {"p1", "p2"}
QoSValues == {0, 1, 2}
PropertyValues == {"None", "props"}

\* values of MQTT_CLIENT_CONNECTION_TIMEOUT_SECONDS the environment may hold
TimeoutConfigs == (-1) .. MaxTimeout

RECURSIVE SeqsUpTo(_, _)
SeqsUpTo(S, n) ==
    IF n = 0 THEN {<<>>}
    ELSE LET shorter == SeqsUpTo(S, n - 1)
         IN  shorter \cup {Append(s, x) : s \in {t \in shorter : Len(t) = n - 1}, x \in S}

\* values of MQTT_SENDER_TOPICS the environment may hold
TopicConfigs == SeqsUpTo(TopicNames, MaxTopics)

VARIABLES
    pc,           \* position of the caller thread
    timeoutCfg,   \* environment: MQTT_CLIENT_CONNECTION_TIMEOUT_SECONDS
    topicsCfg,    \* environment: MQTT_SENDER_TOPICS
    client_type,  \* self.client_type
    client,       \* self.client (connection handle)
    on_publish,   \* self.client.on_publish
    topics,       \* self.topics
    loopState,    \* background network loop of the client
    connected,    \* what client.is_connected() would answer now
    second,       \* loop variable of test_connection
    sleeps,       \* number of time.sleep(1) calls performed
    polls,        \* answers of is_connected() inside the for loop
    finalPoll,    \* answer of the post-loop is_connected()
    log,          \* records written through logging
    exitStatus,   \* status the process terminated with
    args,         \* arguments of the current / last publish call
    idx,          \* position of the publish loop in self.topics
    calls,        \* transport publish calls issued by the current / last publish
    result,       \* how the last publish call ended
    raisedAt,     \* position whose transport publish raised
    nextMid,      \* number of message ids handed out by the transport
    pending,      \* message ids whose on_publish callback has not fired yet, oldest first
    stdout,       \* lines printed
    nPublishes    \* publish calls started so far

vars == <<pc, timeoutCfg, topicsCfg, client_type, client, on_publish, topics,
          loopState, connected, second, sleeps, polls, finalPoll, log,
          exitStatus, args, idx, calls, result, raisedAt, nextMid, pending,
          stdout, nPublishes>>

config == <<timeoutCfg, topicsCfg>>
senderFields == <<client_type, client, on_publish, topics>>
probeVars == <<loopState, second, sleeps, polls, finalPoll, log, exitStatus>>
publishVars == <<args, idx, calls, result, raisedAt, nPublishes>>
transportVars == <<nextMid, pending, stdout>>

NoArgs == [payload |-> "None", qos |-> 0, retain |-> FALSE, properties |-> "None"]

Init ==
    /\ pc = "new"
    /\ timeoutCfg \in TimeoutConfigs
    /\ topicsCfg \in TopicConfigs
    /\ client_type = "None"
    /\ client = "None"
    /\ on_publish = "None"
    /\ topics = <<>>
    /\ loopState = "idle"
    /\ connected = FALSE
    /\ second = 0
    /\ sleeps = 0
    /\ polls = <<>>
    /\ finalPoll = "none"
    /\ log = <<>>
    /\ exitStatus = 0
    /\ args = NoArgs
    /\ idx = 0
    /\ calls = <<>>
    /\ result = "none"
    /\ raisedAt = 0
    /\ nextMid = 0
    /\ pending = <<>>
    /\ stdout = <<>>
    /\ nPublishes = 0

\* ------------------------------------------------------------- helpers
\* variant: the configured value used as it is, without max(1, .)
EffectiveTimeout_NoCoercion(t) == t

\* max(1, t): the number of iterations of the polling loop
EffectiveTimeout(t) == IF t > 1 THEN t ELSE 1

\* variant: the process ends with exit(0)
ExitStatus_Success(code) == 0

\* status a process reports for exit(code): the low 8 bits
ExitStatus(code) == code % 256

LogRecord(level, msg, arg) == [level |-> level, msg |-> msg, arg |-> arg]

\* variant: qos and retain are not forwarded, the transport's defaults apply
_publish_Defaults(topic, payload, qos, retain, properties) ==
    [topic |-> topic, payload |-> payload, qos |-> 0,
     retain |-> FALSE, properties |-> properties]

\* the call self.client.publish(topic, payload, qos, retain, properties)
_publish(topic, payload, qos, retain, properties) ==
    [topic |-> topic, payload |-> payload, qos |-> qos,
     retain |-> retain, properties |-> properties]

Digit(d) == CASE d = 0 -> "0" [] d = 1 -> "1" [] d = 2 -> "2" [] d = 3 -> "3"
              [] d = 4 -> "4" [] d = 5 -> "5" [] d = 6 -> "6" [] d = 7 -> "7"
              [] d = 8 -> "8" [] d = 9 -> "9"

\* str(n) for n >= 0, as the sequence of its decimal digits
RECURSIVE str(_)
str(n) == IF n < 10 THEN <<Digit(n)>> ELSE Append(str(n \div 10), Digit(n % 10))

\* ---------------------------------------------------------- __init__
\* client_type, _connect and the two info records before test_connection
Connect ==
    /\ pc = "new"
    /\ client_type' = "MQTTSender"
    /\ client' = "client"
    /\ log' = log \o <<LogRecord("info", "MQTTSender setting connection", <<>>),
                       LogRecord("info", "MQTTSender now testing connection...", <<>>)>>
    /\ pc' = "tc_loop_start"
    /\ UNCHANGED <<config, on_publish, topics, loopState, connected, second,
                   sleeps, polls, finalPoll, exitStatus, publishVars, transportVars>>

\* ----------------------------------------------------- test_connection
LoopStart ==
    /\ pc = "tc_loop_start"
    /\ loopState' = "running"
    /\ second' = 0
    /\ pc' = IF 0 < EffectiveTimeout(timeoutCfg) THEN "tc_sleep" ELSE "tc_final"
    /\ UNCHANGED <<config, senderFields, connected, sleeps, polls, finalPoll,
                   log, exitStatus, publishVars, transportVars>>

Sleep ==
    /\ pc = "tc_sleep"
    /\ sleeps' = sleeps + 1
    /\ pc' = "tc_poll"
    /\ UNCHANGED <<config, senderFields, loopState, connected, second, polls,
                   finalPoll, log, exitStatus, publishVars, transportVars>>

\* variant: the loop has no break and always runs the full timeout
Poll_NoBreak ==
    /\ pc = "tc_poll"
    /\ polls' = Append(polls, connected)
    /\ log' = IF connected
              THEN Append(log, LogRecord("debug", "MQTTSender connected after", <<second>>))
              ELSE log
    /\ IF second + 1 < EffectiveTimeout(timeoutCfg)
       THEN second' = second + 1 /\ pc' = "tc_sleep"
       ELSE UNCHANGED second /\ pc' = "tc_final"
    /\ UNCHANGED <<config, senderFields, loopState, connected, sleeps,
                   finalPoll, exitStatus, publishVars, transportVars>>

Poll ==
    /\ pc = "tc_poll"
    /\ polls' = Append(polls, connected)
    /\ IF connected
       THEN /\ log' = Append(log, LogRecord("debug", "MQTTSender connected after", <<second>>))
            /\ pc' = "tc_final"
            /\ UNCHANGED second
       ELSE /\ UNCHANGED log
            /\ IF second + 1 < EffectiveTimeout(timeoutCfg)
               THEN second' = second + 1 /\ pc' = "tc_sleep"
               ELSE UNCHANGED second /\ pc' = "tc_final"
    /\ UNCHANGED <<config, senderFields, loopState, connected, sleeps,
                   finalPoll, exitStatus, publishVars, transportVars>>

\* variant: the timeout is logged but the process is not terminated
FinalCheck_NoExit ==
    /\ pc = "tc_final"
    /\ IF ~connected
       THEN /\ finalPoll' = "dead"
            /\ log' = Append(log, LogRecord("critical", "MQTTSender timed out while connecting", <<>>))
       ELSE /\ finalPoll' = "live"
            /\ UNCHANGED log
    /\ pc' = "tc_loop_stop"
    /\ UNCHANGED <<config, senderFields, loopState, connected, second, sleeps,
                   polls, exitStatus, publishVars, transportVars>>

FinalCheck ==
    /\ pc = "tc_final"
    /\ IF ~connected
       THEN /\ finalPoll' = "dead"
            /\ log' = Append(log, LogRecord("critical", "MQTTSender timed out while connecting", <<>>))
            /\ exitStatus' = ExitStatus(-1)
            /\ pc' = "exited"
       ELSE /\ finalPoll' = "live"
            /\ pc' = "tc_loop_stop"
            /\ UNCHANGED <<log, exitStatus>>
    /\ UNCHANGED <<config, senderFields, loopState, connected, second, sleeps,
                   polls, publishVars, transportVars>>

\* variant: test_connection returns without loop_stop
LoopStop_Missing ==
    /\ pc = "tc_loop_stop"
    /\ pc' = "set_topics"
    /\ UNCHANGED <<config, senderFields, loopState, connected, second, sleeps, polls,
                   finalPoll, log, exitStatus, publishVars, transportVars>>

LoopStop ==
    /\ pc = "tc_loop_stop"
    /\ loopState' = "force_stopped"
    /\ pc' = "set_topics"
    /\ UNCHANGED <<config, senderFields, connected, second, sleeps, polls,
                   finalPoll, log, exitStatus, publishVars, transportVars>>

\* ------------------------------------------- __init__, after the probe
RECURSIVE TopicRecords(_)
TopicRecords(ts) ==
    IF ts = <<>> THEN <<>>
    ELSE <<LogRecord("info", "MQTTSender will publish to topic", <<Head(ts)>>)>>
         \o TopicRecords(Tail(ts))

SetTopics ==
    /\ pc = "set_topics"
    /\ on_publish' = "MQTTSender.on_publish"
    /\ topics' = topicsCfg
    /\ log' = log \o TopicRecords(topicsCfg)
    /\ pc' = "ready"
    /\ UNCHANGED <<config, client_type, client, loopState, connected, second,
                   sleeps, polls, finalPoll, exitStatus, publishVars, transportVars>>

\* ------------------------------------------------------------ publish
PublishBegin ==
    /\ pc = "ready"
    /\ nPublishes < MaxPublishes
    /\ \E payload \in Payloads, qos \in QoSValues, retain \in BOOLEAN,
          properties \in PropertyValues :
          args' = [payload |-> payload, qos |-> qos, retain |-> retain,
                   properties |-> properties]
    /\ nPublishes' = nPublishes + 1
    /\ idx' = 1
    /\ calls' = <<>>
    /\ result' = "running"
    /\ raisedAt' = 0
    /\ pc' = "publishing"
    /\ UNCHANGED <<config, senderFields, connected, probeVars, transportVars>>

\* variant: the error of one topic is swallowed and the loop goes on
TransportPublish_ContinueOnError ==
    /\ pc = "publishing"
    /\ idx <= Len(topics)
    /\ \E ok \in BOOLEAN :
          IF ok
          THEN /\ calls' = Append(calls, _publish(topics[idx], args.payload, args.qos,
                                                  args.retain, args.properties))
               /\ nextMid' = nextMid + 1
               /\ pending' = Append(pending, nextMid + 1)
               /\ idx' = idx + 1
               /\ UNCHANGED <<pc, result, raisedAt>>
          ELSE /\ raisedAt' = idx
               /\ result' = "raised"
               /\ idx' = idx + 1
               /\ UNCHANGED <<pc, calls, nextMid, pending>>
    /\ UNCHANGED <<config, senderFields, connected, probeVars, args, nPublishes, stdout>>

\* variant: the loop consumes self.topics while it publishes
TransportPublish_Consuming ==
    /\ pc = "publishing"
    /\ idx <= Len(topics)
    /\ \E ok \in BOOLEAN :
          IF ok
          THEN /\ calls' = Append(calls, _publish(topics[idx], args.payload, args.qos,
                                                  args.retain, args.properties))
               /\ nextMid' = nextMid + 1
               /\ pending' = Append(pending, nextMid + 1)
               /\ topics' = Tail(topics)
               /\ UNCHANGED <<pc, result, raisedAt, idx>>
          ELSE /\ raisedAt' = idx
               /\ result' = "raised"
               /\ pc' = "ready"
               /\ UNCHANGED <<calls, nextMid, pending, idx, topics>>
    /\ UNCHANGED <<config, client_type, client, on_publish, connected, probeVars,
                   args, nPublishes, stdout>>

\* one iteration of the loop: _publish for the topic at position idx; the
\* transport either accepts the message (and hands out a message id) or raises
TransportPublish ==
    /\ pc = "publishing"
    /\ idx <= Len(topics)
    /\ \E ok \in BOOLEAN :
          IF ok
          THEN /\ calls' = Append(calls, _publish(topics[idx], args.payload, args.qos,
                                                  args.retain, args.properties))
               /\ nextMid' = nextMid + 1
               /\ pending' = Append(pending, nextMid + 1)
               /\ idx' = idx + 1
               /\ UNCHANGED <<pc, result, raisedAt>>
          ELSE /\ raisedAt' = idx
               /\ result' = "raised"
               /\ pc' = "ready"
               /\ UNCHANGED <<calls, nextMid, pending, idx>>
    /\ UNCHANGED <<config, senderFields, connected, probeVars, args, nPublishes, stdout>>

PublishReturn ==
    /\ pc = "publishing"
    /\ idx > Len(topics)
    /\ result' = "returned"
    /\ pc' = "ready"
    /\ UNCHANGED <<config, senderFields, connected, probeVars, args, idx, calls,
                   raisedAt, nPublishes, transportVars>>

\* --------------------------------------------------------- on_publish
\* fired by the transport, which acknowledges the messages of the one
\* connection in the order it accepted them
OnPublish ==
    /\ on_publish = "MQTTSender.on_publish"
    /\ pending # <<>>
    /\ LET mid == Head(pending)
       IN  stdout' = Append(stdout, <<"mid: ">> \o str(mid))
    /\ pending' = Tail(pending)
    /\ UNCHANGED <<pc, config, senderFields, connected, probeVars, publishVars, nextMid>>

\* -------------------------------------------------------- environment
\* the client's network loop completes the handshake
EnvConnect ==
    /\ loopState = "running"
    /\ pc # "exited"
    /\ ~connected
    /\ connected' = TRUE
    /\ UNCHANGED <<pc, config, senderFields, probeVars, publishVars, transportVars>>

\* the client's network loop sees the connection drop
EnvDrop ==
    /\ loopState = "running"
    /\ pc # "exited"
    /\ connected
    /\ connected' = FALSE
    /\ UNCHANGED <<pc, config, senderFields, probeVars, publishVars, transportVars>>

Next ==
    \/ Connect
    \/ LoopStart
    \/ Sleep
    \/ Poll
    \/ FinalCheck
    \/ LoopStop
    \/ SetTopics
    \/ PublishBegin
    \/ TransportPublish
    \/ PublishReturn
    \/ OnPublish
    \/ EnvConnect
    \/ EnvDrop

Spec == Init /\ [][Next]_vars

TypeOK ==
    /\ pc \in {"new", "tc_loop_start", "tc_sleep", "tc_poll", "tc_final",
               "tc_loop_stop", "set_topics", "ready", "publishing", "exited"}
    /\ sleeps \in 0 .. MaxTimeout
    /\ exitStatus \in 0 .. 255
    /\ nextMid \in 0 .. MaxPublishes * MaxTopics

\* ===================================================== properties
\* position of the first poll of the loop that reported the connection live,
\* 0 when no poll did
FirstLive ==
    IF \E i \in DOMAIN polls : polls[i]
    THEN CHOOSE i \in DOMAIN polls : polls[i] /\ \A j \in 1 .. (i - 1) : ~polls[j]
    ELSE 0

\* the polling loop of test_connection has ended
ProbeOver == pc \in {"tc_final", "tc_loop_stop", "set_topics", "ready", "publishing", "exited"}

\* test_connection has returned to __init__
ProbeReturned == pc \in {"set_topics", "ready", "publishing"}

\* the transport calls a publish owes to the first n topics of the Topic List
FanOut(n) ==
    [i \in 1 .. n |-> [topic |-> topics[i], payload |-> args.payload, qos |-> args.qos,
                       retain |-> args.retain, properties |-> args.properties]]

\* C1: a publish call that returns normally has issued exactly one transport
\* publish per topic, in Topic List order, each with the payload, qos, retain
\* and properties of the call; with an empty Topic List it has issued none.
C1_FanOutInOrder == result = "returned" => calls = FanOut(Len(topics))

C1_Witness ==
    /\ result = "returned"
    /\ Len(topics) = 2
    /\ topics[1] # topics[2]
    /\ Len(calls) = 2
    /\ args.qos = 2
    /\ args.retain

\* C2: when the transport publish for the topic at position i raises, the
\* topics before i have each been sent exactly once, nothing is sent for i or
\* any later topic, and control is back with the caller of publish.
C2_FailStop ==
    result = "raised" =>
        /\ raisedAt \in 1 .. Len(topics)
        /\ calls = FanOut(raisedAt - 1)
        /\ pc = "ready"

C2_Witness ==
    /\ result = "raised"
    /\ raisedAt = 2
    /\ Len(topics) = 2
    /\ Len(calls) = 1

\* C3: a transport publish is attempted only after a liveness check of
\* test_connection returned true, and a construction whose readiness check
\* failed ends in process exit with no sender able to publish.
C3_LiveBeforePublish ==
    /\ (pc \in {"ready", "publishing"} \/ nPublishes > 0 \/ nextMid > 0) => finalPoll = "live"
    /\ finalPoll = "dead" => (pc = "exited" /\ nPublishes = 0 /\ nextMid = 0)

C3_Witness ==
    /\ nextMid > 0
    /\ calls # <<>>
    /\ finalPoll = "live"

\* C4: when the connection is first seen live at second k and is still live at
\* the final check, the probe has slept exactly k times, polled exactly k
\* times, and succeeds without exiting.
C4_ShortCircuit ==
    (ProbeOver /\ FirstLive > 0 /\ finalPoll = "live") =>
        /\ sleeps = FirstLive
        /\ Len(polls) = FirstLive
        /\ FirstLive <= (IF timeoutCfg >= 1 THEN timeoutCfg ELSE 1)
        /\ pc # "exited"
        /\ exitStatus = 0

C4_Witness ==
    /\ pc = "ready"
    /\ timeoutCfg = 3
    /\ FirstLive = 2
    /\ sleeps = 2

\* C5: when no poll and not the final check either sees the connection live,
\* the probe has slept exactly max(1, configured timeout) times, has logged a
\* critical record last, and the process has exited with a non-zero status
\* before the constructor set the callback or the topics.
C5_TimeoutExit ==
    (finalPoll = "dead" /\ FirstLive = 0) =>
        /\ pc = "exited"
        /\ sleeps = (IF timeoutCfg >= 1 THEN timeoutCfg ELSE 1)
        /\ log # <<>>
        /\ log[Len(log)].level = "critical"
        /\ exitStatus \in 1 .. 255
        /\ on_publish = "None"
        /\ topics = <<>>
        /\ nPublishes = 0

C5_Witness ==
    /\ pc = "exited"
    /\ FirstLive = 0
    /\ timeoutCfg = 3
    /\ sleeps = 3

\* C6: with a configured timeout <= 0 the polling loop makes exactly one
\* sleep-and-poll iteration; with a configured timeout t >= 1 it makes at most
\* t iterations and exactly t when no poll sees the connection live.
C6_Coercion ==
    ProbeOver =>
        /\ timeoutCfg <= 0 => (sleeps = 1 /\ Len(polls) = 1)
        /\ timeoutCfg >= 1 => (sleeps <= timeoutCfg /\ Len(polls) = sleeps)
        /\ (timeoutCfg >= 1 /\ FirstLive = 0) => sleeps = timeoutCfg

C6_Witness ==
    /\ ProbeOver
    /\ timeoutCfg = -1
    /\ sleeps = 1
    /\ FirstLive = 0

\* C7 as stated: the background loop is stopped on every way test_connection
\* ends, by return and by the timeout exit alike.
C7_LoopStoppedOnEveryExit ==
    (ProbeReturned \/ pc = "exited") => loopState = "force_stopped"

\* C7 as amended: the background loop is force-stopped when test_connection
\* returns; on the timeout path the process exits with loop_stop never called.
C7_LoopStoppedOnReturn ==
    /\ ProbeReturned => loopState = "force_stopped"
    /\ pc = "exited" => loopState = "running"

C7_Witness ==
    /\ pc = "ready"
    /\ loopState = "force_stopped"
    /\ FirstLive > 0

\* C8: the debug record of the probe reports k seconds when the connection
\* was first seen live at second k.
C8_LoggedSeconds ==
    \A i \in DOMAIN log : log[i].level = "debug" => log[i].arg = <<FirstLive>>

\* C9: the probe exits the process only when no poll inside the bound saw the
\* connection live.
C9_ExitOnlyWithoutLivePoll == pc = "exited" => FirstLive = 0

\* C10: once construction has completed, no step of publish and no firing of
\* on_publish changes the Topic List, the connection handle or any other field
\* of the sender; a firing of on_publish changes nothing but the transport's
\* queue of unacknowledged ids and the printed output.
C10_FrameAfterConstruction ==
    [][ /\ pc \in {"ready", "publishing"} => UNCHANGED senderFields
        /\ stdout' # stdout =>
              UNCHANGED <<pc, config, senderFields, connected, probeVars, publishVars, nextMid>>
      ]_vars

C10_Witness ==
    /\ pc = "publishing"
    /\ calls # <<>>
    /\ stdout # <<>>
    /\ topics = topicsCfg
    /\ Len(topics) = 2

====
